---------------------------- MODULE Spec2Model ----------------------------
(***************************************************************************)
(* CLOCK-Pro+ cache of github.com/djdv/go-clockpro.                        *)
(*                                                                         *)
(* The cache is one record `c` carrying the fields of the Cache struct,    *)
(* the heap of ring pages (`mem`, addressed by page number, 0 is nil) and  *)
(* the outcome of the running call (`status`).  Every engine function is   *)
(* an operator from cache record to cache record, written statement by     *)
(* statement after clock.go; every public method is one action.            *)
(***************************************************************************)
EXTENDS Integers, Sequences, FiniteSets, TLC

VARIABLES c, last

vars == <<c, last>>

-----------------------------------------------------------------------------
(* Bounds of the model.                                                    *)

(* The caller of Spec uses keys 1..MaxKey, values 1..MaxValue and a cache  *)
(* of capacity MinimumCapacity..MaxCapacity; the caller of SpecSet uses    *)
(* keys 1..AdaptKeys and a cache of capacity AdaptCapacity, the smallest   *)
(* capacity whose cold target can move (capacity/2 >= 2), with more keys   *)
(* than the 2 * AdaptCapacity pages the cache tracks; the caller of        *)
(* SpecCalls tries New with a capacity up to CallCapacity and makes up to  *)
(* MaxCalls calls on keys 1..CallKeys.                                     *)

MaxKey == 3
MaxValue == 2
MaxCapacity == 2
AdaptKeys == 9
AdaptCapacity == 4
MaxCalls == 6
CallKeys == 4
CallCapacity == 3

(* Program constants.                                                      *)

MinimumCapacity == 2
minimumColdRatioPercent == 1

NIL == 0
ZeroValue == 0

NumKeys == IF MaxKey >= AdaptKeys THEN MaxKey ELSE AdaptKeys
Key == 1..NumKeys
Values == 1..MaxValue
Capacities == MinimumCapacity..MaxCapacity

-----------------------------------------------------------------------------
(* Go arithmetic.                                                          *)

Max(a, b) == IF a >= b THEN a ELSE b
Min(a, b) == IF a <= b THEN a ELSE b
Abs(a) == IF a < 0 THEN 0 - a ELSE a

(* Integer division of Go truncates toward zero; b # 0.                    *)
GoDiv(a, b) ==
    LET q == Abs(a) \div Abs(b)
    IN  IF (a < 0) = (b < 0) THEN q ELSE 0 - q

-----------------------------------------------------------------------------
(* internal/ring: a page is a ring element; next = NIL is the zero value   *)
(* of a Ring, a one-element ring that Next/Prev/Move initialise lazily.    *)
(* Each operation returns the new heap m and the returned pointer p.       *)

RingInit(m, r) == [m EXCEPT ![r].next = r, ![r].prev = r]

RingNext(m, r) ==
    IF m[r].next = NIL
    THEN [m |-> RingInit(m, r), p |-> r]
    ELSE [m |-> m, p |-> m[r].next]

RingPrev(m, r) ==
    IF m[r].next = NIL
    THEN [m |-> RingInit(m, r), p |-> r]
    ELSE [m |-> m, p |-> m[r].prev]

RECURSIVE RingWalk(_, _, _)
RingWalk(m, r, n) ==
    IF n < 0 THEN RingWalk(m, m[r].prev, n + 1)
    ELSE IF n > 0 THEN RingWalk(m, m[r].next, n - 1)
    ELSE r

RingMove(m, r, n) ==
    IF m[r].next = NIL
    THEN [m |-> RingInit(m, r), p |-> r]
    ELSE [m |-> m, p |-> RingWalk(m, r, n)]

RingLink(m, r, s) ==
    LET a == RingNext(m, r)
        n == a.p
    IN  IF s # NIL
        THEN LET b  == RingPrev(a.m, s)
                 p  == b.p
                 m1 == [b.m EXCEPT ![r].next = s]
                 m2 == [m1 EXCEPT ![s].prev = r]
                 m3 == [m2 EXCEPT ![n].prev = p]
                 m4 == [m3 EXCEPT ![p].next = n]
             IN  [m |-> m4, p |-> n]
        ELSE [m |-> a.m, p |-> n]

RingUnlink(m, r, n) ==
    IF n <= 0
    THEN [m |-> m, p |-> NIL]
    ELSE LET mv == RingMove(m, r, n + 1)
         IN  RingLink(mv.m, r, mv.p)

(* do: the pages met from r by following next until the walk comes back   *)
(* to a page already met (a page never linked has no next).                *)
SeqRange(s) == {s[i] : i \in 1..Len(s)}

RECURSIVE CycleFrom(_, _, _)
CycleFrom(m, r, acc) ==
    IF r = NIL \/ r \in SeqRange(acc) THEN acc
    ELSE CycleFrom(m, m[r].next, Append(acc, r))

(* The page is one of the ring that holds the LRU page.                    *)
Linked(x, page) ==
    page # NIL /\ page \in SeqRange(CycleFrom(x.mem, x.lru, <<>>))

-----------------------------------------------------------------------------
(* Outcome of the running call.  A Go panic (nil pointer dereference,      *)
(* integer division by zero) or a loop that cannot end stops the call      *)
(* where it is; the statements after it do not run.                        *)

Ok(x) == x.status = "ok"
Panic(x, why) == [x EXCEPT !.status = why]

(* assert of clock_debug.go: the release build has no assertions; the      *)
(* record keeps which of them the debug build would have failed.           *)
assert(x, cond, message) ==
    IF cond THEN x ELSE [x EXCEPT !.failed = @ \cup {message}]

(* Notes on entering demoteHot and evictCold, beyond the assertions of the *)
(* code: whether the page of the hand is linked in the ring, and whether   *)
(* the page demoteHot turns cold is a hot page.  `entered` keeps which of  *)
(* demoteHot, evictCold, the body of pruneTest's loop, increaseColdTarget  *)
(* and decreaseColdTarget the call ran.  No code reads them.               *)
entersDemoteHot(x) ==
    LET x1 == assert(x, Linked(x, x.hot), "hot hand is not linked in the ring")
        x2 == assert(x1, x.mem[x.hot].LIR, "hot hand stops on a cold page")
    IN  [x2 EXCEPT !.entered = @ \cup {"demoteHot"}]

(* Note on using a pointer in `place`: whether the page it points to is    *)
(* linked in the ring.  No code reads it.                                  *)
uses(x, page, place) ==
    IF Ok(x) /\ page # NIL
    THEN assert(x, Linked(x, page), place)
    ELSE x

(* Notes on a step that clears the Demoted flag of a page, from the cache  *)
(* x before it to the cache y after it: whether coldTarget went down (or   *)
(* was 1 already), and for evictCold whether coldTarget is what it was.    *)
(* No code reads them.                                                     *)
closesDemotion(x, y, place) ==
    IF Ok(y)
    THEN assert(y, y.coldTarget < x.coldTarget \/ x.coldTarget = 1, place)
    ELSE y

evictsDemoted(x, y) ==
    LET y1 == closesDemotion(x, y,
                  "evictCold clears Demoted without decreasing coldTarget")
        y2 == assert(y1, y.coldTarget = x.coldTarget,
                     "evictCold changes coldTarget")
    IN  [y2 EXCEPT !.entered = @ \cup {"evictCold clears Demoted"}]

(* Notes on what evictCold did with the page it evicted, from the cache x  *)
(* on entry to the cache y it left: a Stacked page is kept as a ghost, a   *)
(* page out of the stack is removed, and the LRU pointer, if it was on the *)
(* removed page, is on the page before it.  No code reads them.            *)
KeptAsGhost(x, page, y) ==
    /\ Linked(y, page)
    /\ y.index[x.mem[page].Name] = page
    /\ ~y.mem[page].Resident
    /\ y.mem[page].Value = ZeroValue
    /\ y.testCount = x.testCount + 1

Removed(x, page, y) ==
    /\ ~Linked(y, page)
    /\ y.index[x.mem[page].Name] = NIL
    /\ y.testCount = x.testCount

evicts(x, page, y) ==
    IF ~Ok(y) THEN y
    ELSE LET stacked == x.mem[page].Stacked
             y1 == assert(y, stacked => KeptAsGhost(x, page, y),
                          "evictCold does not keep a stacked page as a ghost")
             y2 == assert(y1, ~stacked => Removed(x, page, y),
                          "evictCold does not remove a page out of the stack")
             y3 == assert(y2, ~stacked /\ page = x.lru
                                  => y.lru = RingPrev(x.mem, page).p,
                          "evictCold leaves the LRU pointer off the page before")
         IN  [y3 EXCEPT !.entered = @ \cup
                  (IF stacked THEN {"evictCold keeps a ghost"}
                   ELSE IF page = x.lru THEN {"evictCold removes the LRU page"}
                   ELSE {"evictCold removes a page"})]

entersEvictCold(x) ==
    LET x1 == assert(x, Linked(x, x.cold), "cold hand is not linked in the ring")
    IN  [x1 EXCEPT !.entered = @ \cup {"evictCold"}]

(* What the running call did, for the properties to refer to: `path` is    *)
(* the branch handleMiss took, `ghost` whether the key's page was in the   *)
(* index when handleMiss looked it up.  No code reads them.                *)
Begin(x) == [x EXCEPT !.failed = {}, !.entered = {}, !.path = "none",
                      !.ghost = FALSE]

(* A sweep never ends exactly when its cursor comes back to a page with    *)
(* the whole cache unchanged since it left it.  `idle` counts the          *)
(* iterations in a row that changed nothing; with more of them than there  *)
(* are pages, the cursor has been on some page twice in the same state.    *)
Endless(x, idle) == idle > Len(x.mem)
Idle(x, y, idle) == IF y = x THEN idle + 1 ELSE 0

-----------------------------------------------------------------------------
(* clock.go                                                                *)

(* A variant that lets the cache grow one page past its capacity.          *)
atCapacityAbove(x) == x.coldCount + x.hotCount > x.capacity

atCapacity(x) == x.coldCount + x.hotCount = x.capacity

CacheLen(x) == x.hotCount + x.coldCount

(* A variant that lets the cold target grow up to the capacity.            *)
adjustColdTargetUnclamped(x, delta) ==
    LET size       == x.capacity
        coldTarget == Min(Max(x.coldTarget + delta, 1), size)
    IN  [x EXCEPT !.coldTarget = coldTarget, !.hotTarget = size - coldTarget]

adjustColdTarget(x, delta) ==
    LET size       == x.capacity
        diff       == Max(x.coldTarget + delta, 1)
        coldTarget == Min(diff, size \div 2)
    IN  [x EXCEPT !.coldTarget = coldTarget, !.hotTarget = size - coldTarget]

(* A variant that lowers coldTarget by the same amount instead.            *)
increaseColdTargetLowering(x) ==
    IF ~Ok(x) THEN x
    ELSE IF x.testCount = 0 THEN Panic(x, "divide by zero")
    ELSE adjustColdTarget([x EXCEPT !.entered = @ \cup {"increaseColdTarget"}],
                          0 - Max(GoDiv(x.demotions, x.testCount), 1))

increaseColdTarget(x) ==
    IF ~Ok(x) THEN x
    ELSE IF x.testCount = 0 THEN Panic(x, "divide by zero")
    ELSE adjustColdTarget([x EXCEPT !.entered = @ \cup {"increaseColdTarget"}],
                          Max(GoDiv(x.demotions, x.testCount), 1))

(* A variant that leaves the targets as they are.                          *)
decreaseColdTargetIdle(x) == x

decreaseColdTarget(x) ==
    IF ~Ok(x) THEN x
    ELSE IF x.demotions = 0 THEN Panic(x, "divide by zero")
    ELSE adjustColdTarget([x EXCEPT !.entered = @ \cup {"decreaseColdTarget"}],
                          0 - Max(GoDiv(x.testCount, x.demotions), 1))

RECURSIVE sweepTestLoop(_, _, _)
sweepTestLoop(x, hand, idle) ==
    IF hand = NIL THEN Panic(x, "nil dereference")
    ELSE IF ~(x.mem[hand].LIR \/ x.mem[hand].Resident)
    THEN [x EXCEPT !.test = hand]
    ELSE IF Endless(x, idle) THEN Panic(x, "endless loop")
    ELSE LET n  == RingNext(x.mem, hand)
             x1 == [x EXCEPT !.mem = n.m]
         IN  sweepTestLoop(uses(x1, n.p, "sweepTest goes on at an unlinked page"),
                           n.p, Idle(x, x1, idle))

(* A variant that leaves the test hand where it is.                        *)
sweepTestStaying(x) == x

sweepTest(x) ==
    IF ~Ok(x) THEN x
    ELSE IF x.testCount = 0 THEN [x EXCEPT !.test = NIL]
    ELSE sweepTestLoop(uses(x, x.test, "sweepTest starts at an unlinked page"),
                       x.test, 0)

removeTest(x, test) ==
    IF ~Ok(x) THEN x
    ELSE IF test = NIL THEN Panic(x, "nil dereference")
    ELSE LET nx == RingNext(x.mem, test)
             x1 == IF test = x.test
                   THEN [x EXCEPT !.mem = nx.m, !.test = nx.p]
                   ELSE x
             x2 == [x1 EXCEPT !.index[x1.mem[test].Name] = NIL]
             pv == RingPrev(x2.mem, test)
             ul == RingUnlink(pv.m, pv.p, 1)
             x3 == [x2 EXCEPT !.mem = ul.m, !.testCount = @ - 1]
         IN  sweepTest(x3)

handleHotLIR(x, page) ==
    [x EXCEPT !.mem[page].Referenced = FALSE, !.lru = page]

(* A variant that takes two demotions off the count.                       *)
clearDemotedTwice(x, page) ==
    IF ~Ok(x) THEN x
    ELSE [x EXCEPT !.mem[page].Demoted = FALSE, !.demotions = Max(@ - 2, 0)]

(* page.Demoted = false; c.demotions--, after decreaseColdTarget returned. *)
clearDemoted(x, page) ==
    IF ~Ok(x) THEN x
    ELSE [x EXCEPT !.mem[page].Demoted = FALSE, !.demotions = @ - 1]

(* handleHotHIR on a referenced resident page, after its Demoted branch.   *)
handleHotHIRStacked(x, page, next) ==
    IF ~Ok(x) THEN x
    ELSE [x EXCEPT !.lru = page, !.cold = IF page = @ THEN next ELSE @]

(* A variant that takes a test page out of the stack and keeps it.         *)
handleHotHIRKeepingTest(x, page, next) ==
    IF x.mem[page].Resident
    THEN IF x.mem[page].Referenced
         THEN LET x1 == [x EXCEPT !.mem[page].Referenced = FALSE]
              IN  handleHotHIRStacked(IF x1.mem[page].Demoted
                                      THEN clearDemoted(
                                          closesDemotion(x1, decreaseColdTarget(x1),
                                              "hot hand clears Demoted without decreasing coldTarget"),
                                          page)
                                      ELSE x1,
                                      page, next)
         ELSE [x EXCEPT !.mem[page].Stacked = FALSE]
    ELSE [x EXCEPT !.mem[page].Stacked = FALSE]

handleHotHIR(x, page, next) ==
    IF x.mem[page].Resident
    THEN IF x.mem[page].Referenced
         THEN LET x1 == [x EXCEPT !.mem[page].Referenced = FALSE]
              IN  handleHotHIRStacked(IF x1.mem[page].Demoted
                                      THEN clearDemoted(
                                          closesDemotion(x1, decreaseColdTarget(x1),
                                              "hot hand clears Demoted without decreasing coldTarget"),
                                          page)
                                      ELSE x1,
                                      page, next)
         ELSE [x EXCEPT !.mem[page].Stacked = FALSE]
    ELSE removeTest(x, page)

RECURSIVE sweepHotLoop(_, _, _)

(* The loop goes on from the cache x2 its body left, at the page `next`.   *)
sweepHotNext(x, x2, next, idle) ==
    sweepHotLoop(uses(x2, next, "sweepHot goes on at an unlinked page"),
                 next, Idle(x, x2, idle))

sweepHotLoop(x, page, idle) ==
    IF ~Ok(x) THEN x
    ELSE IF page = NIL THEN Panic(x, "nil dereference")
    ELSE IF ~(~x.mem[page].LIR \/ x.mem[page].Referenced)
    THEN [x EXCEPT !.hot = page]
    ELSE IF Endless(x, idle) THEN Panic(x, "endless loop")
    ELSE LET n  == RingNext(x.mem, page)
             x1 == [x EXCEPT !.mem = n.m]
         IN  sweepHotNext(x, IF x1.mem[page].LIR
                             THEN handleHotLIR(x1, page)
                             ELSE handleHotHIR(x1, page, n.p),
                          n.p, idle)

(* A variant that leaves the hot hand where it is.                         *)
sweepHotStaying(x) == x

sweepHot(x) ==
    IF ~Ok(x) THEN x
    ELSE IF x.hotCount = 0 THEN x
    ELSE sweepHotLoop(uses(x, x.hot, "sweepHot starts at an unlinked page"),
                      x.hot, 0)

moveToLRU(x, page) ==
    IF ~Ok(x) THEN x
    ELSE IF page = x.lru THEN x
    ELSE LET pv   == RingPrev(x.mem, page)
             ul   == RingUnlink(pv.m, pv.p, 1)
             leaf == ul.p
         IN  IF x.lru = NIL THEN Panic([x EXCEPT !.mem = ul.m], "nil dereference")
             ELSE LET lk == RingLink(ul.m, x.lru, leaf)
                  IN  [uses(x, x.lru, "moveToLRU links to an unlinked page")
                           EXCEPT !.mem = lk.m, !.lru = leaf]

demoteHot(x) ==
    IF ~Ok(x) THEN x
    ELSE IF x.hot = NIL THEN Panic(x, "nil dereference")
    ELSE LET x0   == entersDemoteHot(assert(x, ~x.mem[x.hot].Referenced,
                                            "hot hand stops on a referenced page"))
             page == x0.hot
             nx   == RingNext(x0.mem, page)
             x1   == [x0 EXCEPT !.mem = nx.m, !.hot = nx.p]
             x2   == [x1 EXCEPT !.mem[page].LIR = FALSE,
                                !.mem[page].Stacked = FALSE,
                                !.mem[page].Demoted = TRUE,
                                !.hotCount = @ - 1,
                                !.coldCount = @ + 1,
                                !.demotions = @ + 1]
         IN  sweepHot(moveToLRU(x2, page))

(* A variant that demotes nothing.                                         *)
demoteLoopIdle(x) == x

RECURSIVE demoteLoop(_)
demoteLoop(x) ==
    IF ~Ok(x) THEN x
    ELSE IF x.hotCount > x.hotTarget THEN demoteLoop(demoteHot(x))
    ELSE x

(* A variant that counts the page as hot without marking it LIR.           *)
promoteColdUnmarked(x, coldToHot) ==
    IF ~Ok(x) THEN x
    ELSE LET x1 == [x EXCEPT !.hotCount = @ + 1,
                             !.coldCount = @ - 1]
         IN  demoteLoop(moveToLRU(x1, coldToHot))

promoteCold(x, coldToHot) ==
    IF ~Ok(x) THEN x
    ELSE LET x1 == [x EXCEPT !.mem[coldToHot].LIR = TRUE,
                             !.hotCount = @ + 1,
                             !.coldCount = @ - 1]
         IN  demoteLoop(moveToLRU(x1, coldToHot))

(* handleReferencedCold after its Demoted branch.                          *)
handleReferencedColdStacked(x, page) ==
    IF ~Ok(x) THEN x
    ELSE IF x.mem[page].Stacked
    THEN promoteCold(x, page)
    ELSE moveToLRU([x EXCEPT !.mem[page].Stacked = TRUE], page)

handleReferencedCold(x, page) ==
    LET x1 == [x EXCEPT !.mem[page].Referenced = FALSE]
    IN  handleReferencedColdStacked(IF x1.mem[page].Demoted
                                    THEN clearDemoted(
                                        closesDemotion(x1, decreaseColdTarget(x1),
                                            "cold hand clears Demoted without decreasing coldTarget"),
                                        page)
                                    ELSE x1,
                                    page)

RECURSIVE sweepColdLoop(_, _, _)

(* The loop goes on from the cache x2 its body left, at the page `next`.   *)
sweepColdNext(x, x2, next, idle) ==
    sweepColdLoop(uses(x2, next, "sweepCold goes on at an unlinked page"),
                  next, Idle(x, x2, idle))

(* A variant whose cursor also stops on a hot page.                        *)
sweepColdLoopStoppingOnHot(x, hand, idle) ==
    IF ~Ok(x) THEN x
    ELSE IF hand = NIL THEN Panic(x, "nil dereference")
    ELSE IF ~(~x.mem[hand].Resident \/ x.mem[hand].Referenced)
    THEN [x EXCEPT !.cold = hand]
    ELSE IF Endless(x, idle) THEN Panic(x, "endless loop")
    ELSE LET page == hand
             nx   == RingNext(x.mem, hand)
             x1   == [x EXCEPT !.mem = nx.m]
         IN  sweepColdNext(x, IF x1.mem[page].LIR \/ ~x1.mem[page].Referenced
                              THEN x1
                              ELSE handleReferencedCold(x1, page),
                           nx.p, idle)

sweepColdLoop(x, hand, idle) ==
    IF ~Ok(x) THEN x
    ELSE IF hand = NIL THEN Panic(x, "nil dereference")
    ELSE IF ~(x.mem[hand].LIR \/ ~x.mem[hand].Resident \/ x.mem[hand].Referenced)
    THEN [x EXCEPT !.cold = hand]
    ELSE IF Endless(x, idle) THEN Panic(x, "endless loop")
    ELSE LET page == hand
             nx   == RingNext(x.mem, hand)
             x1   == [x EXCEPT !.mem = nx.m]
         IN  sweepColdNext(x, IF x1.mem[page].LIR \/ ~x1.mem[page].Referenced
                              THEN x1
                              ELSE handleReferencedCold(x1, page),
                           nx.p, idle)

(* A variant that leaves the cold hand where it is.                        *)
sweepColdStaying(x) == x

sweepCold(x) ==
    IF ~Ok(x) THEN x
    ELSE IF x.coldCount = 0 THEN x
    ELSE sweepColdLoop(uses(x, x.cold, "sweepCold starts at an unlinked page"),
                       x.cold, 0)

evictCold(x) ==
    IF ~Ok(x) THEN x
    ELSE IF x.cold = NIL THEN Panic(x, "nil dereference")
    ELSE LET x0   == entersEvictCold(
                         assert(x, ~x.mem[x.cold].LIR /\ x.mem[x.cold].Resident
                                       /\ ~x.mem[x.cold].Referenced,
                                "cold hand does not stop at a non-referenced resident cold page"))
             page == x0.cold
             nx   == RingNext(x0.mem, page)
             x1   == [x0 EXCEPT !.mem = nx.m, !.cold = nx.p]
             x2   == [x1 EXCEPT !.mem[page].Resident = FALSE,
                                !.mem[page].Value = ZeroValue,
                                !.coldCount = @ - 1,
                                !.testCount = @ + 1]
             x3   == IF x2.mem[page].Demoted
                     THEN evictsDemoted(x2, [x2 EXCEPT !.mem[page].Demoted = FALSE,
                                                       !.demotions = @ - 1])
                     ELSE x2
             x4   == IF x3.test = NIL THEN [x3 EXCEPT !.test = page] ELSE x3
         IN  evicts(x0, page,
                    IF ~x4.mem[page].Stacked
                    THEN LET pv == RingPrev(x4.mem, page)
                             x5 == IF page = x4.lru
                                   THEN [x4 EXCEPT !.mem = pv.m, !.lru = pv.p]
                                   ELSE x4
                         IN  removeTest(x5, page)
                    ELSE x4)

(* A variant that does not take the page off the count of test pages.      *)
promoteTestResidentUncounted(x, testToHot, value) ==
    IF ~Ok(x) THEN x
    ELSE LET x2 == [x EXCEPT !.mem[testToHot].Value = value,
                             !.mem[testToHot].Resident = TRUE,
                             !.coldCount = @ + 1]
         IN  sweepCold(promoteCold(IF testToHot = x2.test
                                   THEN sweepTest(x2)
                                   ELSE x2,
                                   testToHot))

(* promoteTest after evictCold returned: the test page becomes resident.   *)
promoteTestResident(x, testToHot, value) ==
    IF ~Ok(x) THEN x
    ELSE LET x2 == [x EXCEPT !.mem[testToHot].Value = value,
                             !.mem[testToHot].Resident = TRUE,
                             !.testCount = @ - 1,
                             !.coldCount = @ + 1]
         IN  sweepCold(promoteCold(IF testToHot = x2.test
                                   THEN sweepTest(x2)
                                   ELSE x2,
                                   testToHot))

promoteTest(x, testToHot, value) ==
    LET a0 == [x EXCEPT !.path = "promoteTest"]
        a1 == assert(a0, x.mem[testToHot].Stacked,
                     "hit a non-resident cold page out of the stack")
        a2 == assert(a1, ~x.mem[testToHot].Referenced,
                     "hit a referenced non-resident cold page")
        a3 == assert(a2, x.hotCount + x.coldCount = x.capacity,
                     "cache not full")
    IN  promoteTestResident(evictCold(increaseColdTarget(a3)), testToHot, value)

addToClock(x, page) ==
    LET x1 == IF x.lru = NIL
              THEN [x EXCEPT !.lru = page, !.hot = page]
              ELSE LET lk == RingLink(x.mem, x.lru, page)
                   IN  [uses(x, x.lru, "addToClock links to an unlinked page")
                            EXCEPT !.mem = lk.m, !.lru = page]
    IN  [x1 EXCEPT !.index[x1.mem[page].Name] = page]

(* A variant that never drops test pages.                                  *)
pruneTestKeepsAll(x) == x

RECURSIVE pruneTest(_)
pruneTest(x) ==
    IF ~Ok(x) THEN x
    ELSE IF x.coldCount + x.hotCount + x.testCount > x.capacity * 2
    THEN IF x.test = NIL
         THEN Panic(x, "nil dereference")
         ELSE LET x0 == assert(uses(x, x.test, "pruneTest removes an unlinked page"),
                               x.mem[x.test].Stacked /\ ~x.mem[x.test].LIR
                                  /\ ~x.mem[x.test].Resident,
                               "test hand does not stop at a test page")
              IN  pruneTest(removeTest([x0 EXCEPT !.entered = @ \cup {"pruneTest"}],
                                       x0.test))
    ELSE x

(* &page{...}: a fresh page, not yet linked (next and prev are nil).       *)
NewPage(key, value, lowIRR) ==
    [next |-> NIL, prev |-> NIL, Value |-> value, Name |-> key,
     LIR |-> lowIRR, Resident |-> TRUE, Demoted |-> FALSE,
     Referenced |-> FALSE, Stacked |-> TRUE]

(* A variant that admits every new page as a cold page.                    *)
addNewAlwaysCold(x, key, value) ==
    IF ~Ok(x) THEN x
    ELSE LET page   == Len(x.mem) + 1
             x1     == [x EXCEPT !.mem = Append(@, NewPage(key, value, FALSE)),
                                 !.path = "addNew"]
             x2     == addToClock(x1, page)
             x3     == [x2 EXCEPT !.cold = IF @ = NIL THEN page ELSE @,
                                  !.coldCount = @ + 1]
         IN  pruneTest(sweepCold(x3))

addNew(x, key, value) ==
    IF ~Ok(x) THEN x
    ELSE LET lowIRR == x.coldCount = 0 /\ x.hotCount < x.hotTarget
             page   == Len(x.mem) + 1
             x1     == [x EXCEPT !.mem = Append(@, NewPage(key, value, lowIRR)),
                                 !.path = "addNew"]
             x2     == addToClock(x1, page)
             x3     == IF lowIRR
                       THEN [x2 EXCEPT !.hotCount = @ + 1]
                       ELSE [x2 EXCEPT !.cold = IF @ = NIL THEN page ELSE @,
                                       !.coldCount = @ + 1]
         IN  pruneTest(sweepCold(x3))

(* A variant that admits a new page without evicting at capacity.          *)
handleMissSweptNotEvicting(x, key, value, hadMetadata) ==
    IF ~Ok(x) THEN x
    ELSE LET x1 == [x EXCEPT !.ghost = x.index[key] # NIL]
         IN  IF hadMetadata /\ x1.index[key] # NIL
             THEN promoteTest(x1, x1.index[key], value)
             ELSE addNew(x1, key, value)

(* handleMiss after the two sweeps returned.                               *)
handleMissSwept(x, key, value, hadMetadata) ==
    IF ~Ok(x) THEN x
    ELSE LET x1 == [x EXCEPT !.ghost = x.index[key] # NIL]
         IN  IF hadMetadata /\ x1.index[key] # NIL
             THEN promoteTest(x1, x1.index[key], value)
             ELSE addNew(IF atCapacity(x1) THEN evictCold(x1) ELSE x1, key, value)

handleMiss(x, key, value, hadMetadata) ==
    handleMissSwept(sweepCold(sweepHot(x)), key, value, hadMetadata)

(* A variant that also moves the LRU pointer to the page it hits.          *)
GetMovingLRU(x, key) ==
    LET page == x.index[key]
    IN  IF page # NIL /\ x.mem[page].Resident
        THEN [c |-> [x EXCEPT !.mem[page].Referenced = TRUE, !.lru = page],
              value |-> x.mem[page].Value, ok |-> TRUE]
        ELSE [c |-> x, value |-> ZeroValue, ok |-> FALSE]

(* Get: the cache after the call and the returned (value, ok).             *)
Get(x, key) ==
    LET page == x.index[key]
    IN  IF page # NIL /\ x.mem[page].Resident
        THEN [c |-> [x EXCEPT !.mem[page].Referenced = TRUE],
              value |-> x.mem[page].Value, ok |-> TRUE]
        ELSE [c |-> x, value |-> ZeroValue, ok |-> FALSE]

(* A variant that treats every Set as a miss.                              *)
SetAlwaysMissing(x, key, value) == handleMiss(x, key, value, x.index[key] # NIL)

Set(x, key, value) ==
    LET page  == x.index[key]
        found == page # NIL
    IN  IF found /\ x.mem[page].Resident
        THEN [x EXCEPT !.mem[page].Referenced = TRUE, !.mem[page].Value = value]
        ELSE handleMiss(x, key, value, found)

(* A variant that caches the value fetch returned along with an error.     *)
LoadCachingError(x, key, fetch) ==
    LET g == Get(x, key)
    IN  IF g.ok
        THEN [c |-> g.c, value |-> g.value, err |-> "nil", fetched |-> FALSE]
        ELSE [c |-> handleMiss(g.c, key, fetch.value, FALSE),
              value |-> fetch.value, err |-> fetch.err, fetched |-> TRUE]

(* Load: fetch is the result the caller's fetch function would return,     *)
(* [value, err] with err = "nil" for no error; fetched tells whether Load  *)
(* called it.                                                              *)
Load(x, key, fetch) ==
    LET g == Get(x, key)
    IN  IF g.ok
        THEN [c |-> g.c, value |-> g.value, err |-> "nil", fetched |-> FALSE]
        ELSE IF fetch.err # "nil"
        THEN [c |-> g.c, value |-> fetch.value, err |-> fetch.err, fetched |-> TRUE]
        ELSE [c |-> handleMiss(g.c, key, fetch.value, FALSE),
              value |-> fetch.value, err |-> "nil", fetched |-> TRUE]

(* error.go: an error is the chain errors.Is walks, from the error itself  *)
(* down to what it wraps; nil is the empty chain.  minCapacityError        *)
(* formats the two numbers into a message that wraps ErrInvalidCapacity.   *)
NilError == <<>>

ErrInvalidCapacity == "invalid capacity"

minCapacityError(capacity) ==
    <<[text |-> "%w: must be >=%d but %d was requested",
       args |-> <<MinimumCapacity, capacity>>],
      [text |-> ErrInvalidCapacity, args |-> <<>>]>>

Is(err, target) == \E i \in 1..Len(err) : err[i].text = target

(* A variant that accepts a capacity of one.                               *)
NewAcceptingOne(capacity) ==
    IF capacity < MinimumCapacity - 1
    THEN [err |-> minCapacityError(capacity), ptr |-> NIL, c |-> NIL]
    ELSE LET coldInitial == Max((capacity * minimumColdRatioPercent) \div 100, 1)
             coldTarget  == Min(coldInitial, capacity \div 2)
             hotTarget   == capacity - coldTarget
         IN  [err |-> NilError, ptr |-> 1,
              c |-> [index |-> [k \in Key |-> NIL], mem |-> <<>>,
                     hot |-> NIL, cold |-> NIL, test |-> NIL, lru |-> NIL,
                     capacity |-> capacity,
                     coldTarget |-> coldTarget, hotTarget |-> hotTarget,
                     coldCount |-> 0, hotCount |-> 0, testCount |-> 0,
                     demotions |-> 0,
                     status |-> "ok", failed |-> {}, entered |-> {},
                     path |-> "none", ghost |-> FALSE]]

(* New: [err, ptr, c]; ptr is the pointer New returns and c the Cache it   *)
(* points to.  An invalid capacity yields the error and the nil pointer;   *)
(* err is NilError when there is no error.                                 *)
New(capacity) ==
    IF capacity < MinimumCapacity
    THEN [err |-> minCapacityError(capacity), ptr |-> NIL, c |-> NIL]
    ELSE LET coldInitial == Max((capacity * minimumColdRatioPercent) \div 100, 1)
             coldTarget  == Min(coldInitial, capacity \div 2)
             hotTarget   == capacity - coldTarget
         IN  [err |-> NilError, ptr |-> 1,
              c |-> [index |-> [k \in Key |-> NIL], mem |-> <<>>,
                     hot |-> NIL, cold |-> NIL, test |-> NIL, lru |-> NIL,
                     capacity |-> capacity,
                     coldTarget |-> coldTarget, hotTarget |-> hotTarget,
                     coldCount |-> 0, hotCount |-> 0, testCount |-> 0,
                     demotions |-> 0,
                     status |-> "ok", failed |-> {}, entered |-> {},
                     path |-> "none", ghost |-> FALSE]]

-----------------------------------------------------------------------------
(* Page numbers stand for Go pointers and keys are any comparable type:    *)
(* only the identity of a page or a key matters, and a page no pointer     *)
(* reaches is garbage.  After every call the pages that the hands, the LRU *)
(* pointer and the index can reach are renumbered in the order they are    *)
(* met, and the keys in the order of their pages (then the key of the      *)
(* call, then the keys the cache does not hold), so that caches equal up   *)
(* to the names of pages and keys are one state.                           *)

AppendNew(s, e) == IF e = NIL \/ e \in SeqRange(s) THEN s ELSE Append(s, e)

Roots(x) == <<x.lru, x.hot, x.cold, x.test>> \o [i \in 1..NumKeys |-> x.index[i]]

RECURSIVE Reachable(_, _, _)
Reachable(x, i, acc) ==
    IF i > Len(Roots(x)) THEN acc
    ELSE Reachable(x, i + 1, CycleFrom(x.mem, Roots(x)[i], acc))

RECURSIVE NamesOf(_, _, _, _)
NamesOf(m, order, i, acc) ==
    IF i > Len(order) THEN acc
    ELSE NamesOf(m, order, i + 1, AppendNew(acc, m[order[i]].Name))

RECURSIVE KeysFrom(_, _)
KeysFrom(k, acc) ==
    IF k > NumKeys THEN acc ELSE KeysFrom(k + 1, AppendNew(acc, k))

(* Normalize: the renamed cache and the new name of the call's key.        *)
Normalize(x, key) ==
    LET order   == Reachable(x, 1, <<>>)
        ren(p)  == IF p = NIL THEN NIL
                   ELSE CHOOSE i \in 1..Len(order) : order[i] = p
        keys    == KeysFrom(1, AppendNew(NamesOf(x.mem, order, 1, <<>>), key))
        kren(k) == IF k = NIL THEN NIL
                   ELSE CHOOSE i \in 1..NumKeys : keys[i] = k
    IN  [key |-> kren(key),
         c   |-> [x EXCEPT
                    !.mem = [i \in 1..Len(order) |->
                                [x.mem[order[i]] EXCEPT !.next = ren(@),
                                                        !.prev = ren(@),
                                                        !.Name = kren(@)]],
                    !.index = [k \in Key |-> ren(x.index[keys[k]])],
                    !.hot = ren(@), !.cold = ren(@),
                    !.test = ren(@), !.lru = ren(@)]]

-----------------------------------------------------------------------------
(* The caller: one cache built by New, then any sequence of Get, Set and   *)
(* Load, one at a time (the cache is single-threaded).  `last` is the      *)
(* call that has just returned: its key, the value given to Set (arg), or  *)
(* what fetch returned to Load (arg, ferr) if Load called it, and what the *)
(* call returned (value, ok, err).                                         *)

NoError == "nil"
Errors == {"e1", "e2"}

(* What the caller's fetch function returns: (value, nil) or (zero, e).    *)
FetchResults ==
    {[value |-> v, err |-> NoError] : v \in Values}
        \cup {[value |-> ZeroValue, err |-> e] : e \in Errors}

Init ==
    /\ \E capacity \in Capacities : c = New(capacity).c
    /\ last = [op |-> "New", key |-> NIL, arg |-> ZeroValue,
               ferr |-> NoError, value |-> ZeroValue, ok |-> FALSE,
               err |-> NoError, fetched |-> FALSE]

(* A call returns: r is what it returned and the cache it left, n the      *)
(* cache and the key of the call after renaming.                           *)
Returns(op, arg, ferr, r, n) ==
    /\ c' = n.c
    /\ last' = [op |-> op, key |-> n.key, arg |-> arg, ferr |-> ferr,
                value |-> r.value, ok |-> r.ok, err |-> r.err,
                fetched |-> r.fetched]

GetReturns(key, g) ==
    Returns("Get", ZeroValue, NoError,
            [value |-> g.value, ok |-> g.ok, err |-> NoError, fetched |-> FALSE],
            Normalize(g.c, key))

LoadReturns(key, fetch, l) ==
    Returns("Load",
            IF l.fetched THEN fetch.value ELSE ZeroValue,
            IF l.fetched THEN fetch.err ELSE NoError,
            [value |-> l.value, ok |-> FALSE, err |-> l.err, fetched |-> l.fetched],
            Normalize(l.c, key))

DoGet(key) ==
    /\ Ok(c)
    /\ GetReturns(key, Get(Begin(c), key))

DoSet(key, value) ==
    /\ Ok(c)
    /\ Returns("Set", value, NoError,
               [value |-> ZeroValue, ok |-> FALSE, err |-> NoError, fetched |-> FALSE],
               Normalize(Set(Begin(c), key, value), key))

DoLoad(key, fetch) ==
    /\ Ok(c)
    /\ LoadReturns(key, fetch, Load(Begin(c), key, fetch))

Next ==
    \/ \E key \in 1..MaxKey : DoGet(key)
    \/ \E key \in 1..MaxKey, value \in Values : DoSet(key, value)
    \/ \E key \in 1..MaxKey, fetch \in FetchResults : DoLoad(key, fetch)

Spec == Init /\ [][Next]_vars

(* A caller that only uses Get and Set, on a cache of capacity             *)
(* AdaptCapacity; it stores the same value every time.                     *)
InitSet ==
    /\ c = New(AdaptCapacity).c
    /\ last = [op |-> "New", key |-> NIL, arg |-> ZeroValue,
               ferr |-> NoError, value |-> ZeroValue, ok |-> FALSE,
               err |-> NoError, fetched |-> FALSE]

NextSet ==
    \/ \E key \in 1..AdaptKeys : DoGet(key)
    \/ \E key \in 1..AdaptKeys : DoSet(key, 1)

SpecSet == InitSet /\ [][NextSet]_vars

(* A caller that keeps the list of the calls it made, as the programs of  *)
(* clock_test.go do: it tries New with a capacity from -1 to CallCapacity  *)
(* and, if it got a cache, makes up to MaxCalls calls, Get(k) or Set(k, v) *)
(* with k in 1..CallKeys; it sets a key to the key itself the first time   *)
(* and to -1 afterwards.  `last.calls` is the list of calls made,          *)
(* `last.before` the cache before the last call, `last.cache` whether New  *)
(* returned a cache.                                                       *)
GetCall(key) == [op |-> "Get", key |-> key, value |-> ZeroValue]
SetCall(key, value) == [op |-> "Set", key |-> key, value |-> value]

ValueFor(key, calls) ==
    IF \E i \in 1..Len(calls) : calls[i].op = "Set" /\ calls[i].key = key
    THEN 0 - 1
    ELSE key

NextCalls(calls) ==
    {GetCall(key) : key \in 1..CallKeys}
        \cup {SetCall(key, ValueFor(key, calls)) : key \in 1..CallKeys}

(* The caller's state after New returned n.                                *)
Constructed(capacity, n) ==
    /\ c = n.c
    /\ last = [op |-> "New", key |-> NIL, arg |-> capacity,
               ferr |-> NoError, value |-> ZeroValue, ok |-> FALSE,
               err |-> n.err, fetched |-> FALSE,
               cache |-> n.ptr # NIL, calls |-> <<>>, before |-> NIL]

InitCalls == \E capacity \in (0 - 1)..CallCapacity : Constructed(capacity, New(capacity))

(* A call of the list returns: g is what it returned and the cache it left. *)
CallReturns(call, g) ==
    /\ c' = g.c
    /\ last' = [op |-> call.op, key |-> call.key, arg |-> call.value,
                ferr |-> NoError, value |-> g.value, ok |-> g.ok,
                err |-> NilError, fetched |-> FALSE,
                cache |-> TRUE, calls |-> Append(last.calls, call),
                before |-> Begin(c)]

DoCall(call) ==
    /\ last.cache /\ Ok(c) /\ Len(last.calls) < MaxCalls
    /\ call \in NextCalls(last.calls)
    /\ CallReturns(call, IF call.op = "Get"
                         THEN Get(Begin(c), call.key)
                         ELSE [c |-> Set(Begin(c), call.key, call.value),
                               value |-> ZeroValue, ok |-> FALSE])

NextCall == \E call \in NextCalls(last.calls) : DoCall(call)

SpecCalls == InitCalls /\ [][NextCall]_vars

-----------------------------------------------------------------------------
(* The cache proper: the record without the notes of the last call.       *)
Cache(x) == Begin(x)

(* Pages linked in the cache's ring, in order from the LRU page.           *)
Ring(x) == CycleFrom(x.mem, x.lru, <<>>)
RingPages(x) == SeqRange(Ring(x))
PagesOf(x, key) == {p \in RingPages(x) : x.mem[p].Name = key}

(* Keys whose index entry is a Resident page.                              *)
Residents(x) == {k \in Key : x.index[k] # NIL /\ x.mem[x.index[k]].Resident}

(* Keys: the sets of keys the iterator can emit.  It ranges over the index *)
(* in the map's order, which Go leaves open, yields the key of every       *)
(* Resident entry and returns once Len() keys are out; each key of the     *)
(* index is yielded at most once.                                          *)
Keys(x) ==
    LET residents == CacheLen(x)
        resident  == Residents(x)
    IN  IF residents >= 1 /\ Cardinality(resident) >= residents
        THEN {s \in SUBSET resident : Cardinality(s) = residents}
        ELSE {resident}

Metadata(x) == x.hotCount + x.coldCount + x.testCount

-----------------------------------------------------------------------------
(* C1: after any sequence of Get, Set and Load on a cache built by         *)
(* New(capacity >= 2), Len() is hotCount + coldCount and is at most        *)
(* capacity.                                                               *)
C1_LenWithinCapacity ==
    Ok(c) => /\ CacheLen(c) = c.hotCount + c.coldCount
             /\ CacheLen(c) <= c.capacity

(* An insertion of a new key into a full cache has just evicted a page.    *)
C1_Witness ==
    /\ Ok(c) /\ last.op \in {"Set", "Load"} /\ c.path = "addNew"
    /\ CacheLen(c) = c.capacity /\ c.testCount > 0

(* C2: right after Set(k, v) returns, Get(k) returns (v, true), whatever   *)
(* the Set was (update, ghost hit, insertion) and also when the history    *)
(* contains Load calls.                                                    *)
C2_GetAfterSet ==
    Ok(c) /\ last.op = "Set" =>
        /\ Get(c, last.key).ok
        /\ Get(c, last.key).value = last.arg

(* C3: after every public operation the keys Keys() produces are pairwise  *)
(* distinct (a set), are exactly the keys whose index entry is Resident,   *)
(* and there are Len() of them.                                            *)
C3_KeysAreResidents ==
    Ok(c) => \A s \in Keys(c) : s = Residents(c) /\ Cardinality(s) = CacheLen(c)

(* C4: after every public operation every Resident page linked in the      *)
(* ring is the page the index maps its key to, so Get finds it.            *)
C4_ResidentPagesIndexed ==
    Ok(c) => \A p \in RingPages(c) :
                c.mem[p].Resident =>
                    c.index[c.mem[p].Name] = p /\ Get(c, c.mem[p].Name).ok

(* C5: after every public operation hotCount + coldCount + testCount is    *)
(* at most 2 * capacity, for insertions (which prune) and for ghost hits   *)
(* (which do not).                                                         *)
C5_MetadataBound == Ok(c) => Metadata(c) <= 2 * c.capacity

(* A ghost hit has just returned with the metadata at its bound.           *)
C5_Witness ==
    Ok(c) /\ c.path = "promoteTest" /\ Metadata(c) = 2 * c.capacity

(* C6: after a Load(k, fetch) that missed and whose fetch returned         *)
(* (v, nil), a following Load(k, fetch2) returns (v, nil) and does not     *)
(* call fetch2.                                                            *)
C6_LoadCaches ==
    Ok(c) /\ last.op = "Load" /\ last.fetched /\ last.ferr = NoError =>
        \A fetch2 \in FetchResults :
            LET l == Load(c, last.key, fetch2)
            IN  ~l.fetched /\ l.value = last.arg /\ l.err = NoError

(* C7: on every miss, from Set or from Load, if the key's nonresident page *)
(* is still in the index after sweepHot and sweepCold, promoteTest         *)
(* resurrects that page and no second page for the key is created.         *)
C7_GhostIsResurrected ==
    Ok(c) /\ c.ghost =>
        /\ c.path = "promoteTest"
        /\ Cardinality(PagesOf(c, last.key)) = 1

(* C8: a Load(k, fetch) that misses and whose fetch returns an error e     *)
(* returns e and leaves the cache as it was; k is still not resident and   *)
(* a following Load(k, fetch2) calls fetch2.                               *)
C8_LoadErrorLeavesCache ==
    [][last'.op = "Load" /\ last'.ferr # NoError =>
          /\ last'.err = last'.ferr
          /\ Cache(c') = Cache(c)
          /\ ~Get(c', last'.key).ok
          /\ \A fetch2 \in FetchResults : Load(c', last'.key, fetch2).fetched]_vars

(* A failed Load of a key whose ghost page is in the index.                *)
C8_Witness ==
    /\ last.op = "Load" /\ last.err \in Errors
    /\ c.index[last.key] # NIL /\ CacheLen(c) = c.capacity

(* C9: from every reachable state every Get, Set and Load returns: the     *)
(* loops of sweepHot, sweepCold, sweepTest, promoteCold and pruneTest end. *)
C9_CallsReturn == c.status # "endless loop"

(* C10: Len() never decreases; a Set or successful Load of a non-resident  *)
(* key adds 1 to Len() below capacity, and at capacity leaves Len() at     *)
(* capacity with the new key resident and some key that was resident no    *)
(* longer resident.                                                        *)
MissGrows(x, y, key) ==
    Ok(y) =>
        /\ CacheLen(y) >= CacheLen(x)
        /\ key \notin Residents(x) =>
              IF CacheLen(x) < x.capacity
              THEN CacheLen(y) = CacheLen(x) + 1
              ELSE /\ CacheLen(y) = x.capacity
                   /\ key \in Residents(y)
                   /\ \E k \in Residents(x) : k \notin Residents(y)

C10_LenGrows ==
    Ok(c) =>
        \A key \in Key :
            /\ CacheLen(Get(c, key).c) = CacheLen(c)
            /\ \A value \in Values :
                  /\ MissGrows(c, Set(c, key, value), key)
                  /\ MissGrows(c, Load(c, key, [value |-> value, err |-> NoError]).c, key)

(* C11: Get(k) on a key whose index entry is Resident returns (value,      *)
(* true) and changes only the Referenced bit of that page; on any other    *)
(* key it returns (zero, false) and changes nothing.  Ring order, index,   *)
(* hands, counts, targets and all other flags and values stay, so a second *)
(* Get(k) returns the same value and Len() is unchanged.                   *)
GetFrame(x, key, g) ==
    LET page == x.index[key]
    IN  IF page # NIL /\ x.mem[page].Resident
        THEN /\ g.ok /\ g.value = x.mem[page].Value
             /\ g.c.mem[page].Referenced
             /\ [g.c EXCEPT !.mem[page].Referenced = x.mem[page].Referenced] = x
             /\ Ring(g.c) = Ring(x)
             /\ CacheLen(g.c) = CacheLen(x)
             /\ Get(g.c, key).ok /\ Get(g.c, key).value = g.value
        ELSE /\ ~g.ok /\ g.value = ZeroValue
             /\ g.c = x

C11_GetFrame == Ok(c) => \A key \in Key : GetFrame(Cache(c), key, Get(Cache(c), key))

(* A Get has just hit a page that was not referenced, in a full cache that *)
(* also tracks test pages.                                                 *)
C11_Witness ==
    /\ Ok(c) /\ last.op = "Get" /\ last.ok
    /\ CacheLen(c) = c.capacity /\ c.testCount > 0
    /\ \E key \in Key : key \notin Residents(c) /\ c.index[key] # NIL

(* C12: Set(k, v) on a key whose index entry is Resident changes only that *)
(* page's value (to v) and its Referenced bit (to true): Len(), the        *)
(* resident keys, the ring order, the hands, the counts and the targets    *)
(* stay.                                                                   *)
SetFrame(x, key, value, y) ==
    LET page == x.index[key]
    IN  page # NIL /\ x.mem[page].Resident =>
            /\ y.mem[page].Value = value /\ y.mem[page].Referenced
            /\ [y EXCEPT !.mem[page].Value = x.mem[page].Value,
                         !.mem[page].Referenced = x.mem[page].Referenced] = x
            /\ Ring(y) = Ring(x)
            /\ Residents(y) = Residents(x)
            /\ CacheLen(y) = CacheLen(x)

C12_SetFrame ==
    Ok(c) => \A key \in Key, value \in Values :
                 SetFrame(Cache(c), key, value, Set(Cache(c), key, value))

(* A Set has just updated a resident page of a full cache that also tracks *)
(* test pages: handleMiss did not run.                                     *)
C12_Witness ==
    /\ Ok(c) /\ last.op = "Set" /\ c.path = "none"
    /\ CacheLen(c) = c.capacity /\ c.testCount > 0

(* C13: at construction and after every public operation,                  *)
(* 1 <= coldTarget <= capacity / 2 (integer division) and                  *)
(* hotTarget = capacity - coldTarget.                                      *)
C13_TargetsInRange ==
    /\ 1 <= c.coldTarget /\ c.coldTarget <= c.capacity \div 2
    /\ c.hotTarget = c.capacity - c.coldTarget

(* The cold target has moved up to its upper limit and a call returned.    *)
C13_Witness ==
    /\ Ok(c) /\ last.op = "Set"
    /\ c.coldTarget = c.capacity \div 2 /\ c.coldTarget > 1

(* C14: after every public operation every page whose LIR flag is set is   *)
(* Resident.                                                               *)
C14_HotPagesResident ==
    Ok(c) => \A p \in RingPages(c) : c.mem[p].LIR => c.mem[p].Resident

(* Pages have been demoted and evicted: the ring holds a demoted cold page *)
(* and a test page next to the hot pages.                                  *)
C14_Witness ==
    /\ Ok(c) /\ c.hotCount > 0
    /\ \E p \in RingPages(c) : c.mem[p].Demoted /\ c.mem[p].Resident
    /\ \E p \in RingPages(c) : ~c.mem[p].Resident

-----------------------------------------------------------------------------
(* The programs of clock_test.go, as lists of calls.                       *)
evictionOrder ==
    <<SetCall(1, 1), SetCall(2, 2), SetCall(3, 3),
      GetCall(1), GetCall(2), SetCall(4, 4)>>

ghostHit ==
    <<SetCall(1, 1), SetCall(2, 2), SetCall(3, 3), SetCall(1, 0 - 1)>>

(* The caller made exactly these calls on a cache of this capacity.        *)
Ran(calls, capacity) ==
    last.cache /\ c.capacity = capacity /\ last.calls = calls

(* The page of key in x is a resident cold page that is not referenced.    *)
UnreferencedCold(x, key) ==
    /\ x.index[key] # NIL
    /\ ~x.mem[x.index[key]].LIR
    /\ x.mem[x.index[key]].Resident
    /\ ~x.mem[x.index[key]].Referenced

(* C15: with capacity 3, after Set(1,1), Set(2,2), Set(3,3), Get(1),       *)
(* Get(2), Set(4,4) the resident keys are exactly {1, 2, 4}; key 3 was the *)
(* only cold page, resident and not referenced, before Set(4,4) and it is  *)
(* the one that is no longer resident.                                     *)
C15_EvictionOrder ==
    Ran(evictionOrder, 3) =>
        /\ Ok(c)
        /\ Residents(c) = {1, 2, 4}
        /\ CacheLen(c) = 3
        /\ Residents(last.before) = {1, 2, 3}
        /\ UnreferencedCold(last.before, 3)
        /\ \A key \in {1, 2} : last.before.mem[last.before.index[key]].LIR

C15_Witness == Ran(evictionOrder, 3) /\ Ok(c) /\ 3 \notin Residents(c)

(* The page of key in x is a ghost: in the index and not resident.         *)
IsGhost(x, key) == x.index[key] # NIL /\ ~x.mem[x.index[key]].Resident

C17_New ==
    last.op = "New" =>
        IF last.arg < 2
        THEN ~last.cache /\ Is(last.err, ErrInvalidCapacity)
        ELSE /\ last.cache /\ last.err = NilError
             /\ c.capacity = last.arg
             /\ CacheLen(c) = 0
             /\ \A key \in Key :
                    /\ ~Get(Cache(c), key).ok
                    /\ Get(Cache(c), key).value = ZeroValue

C17_Witness ==
    last.op = "New" /\ last.arg = 1 /\ ~last.cache
        /\ Is(last.err, ErrInvalidCapacity)

(* What the debug build asserts, and the model notes, on entering          *)
(* evictCold and demoteHot.                                                *)
EvictColdChecks ==
    {"cold hand does not stop at a non-referenced resident cold page",
     "cold hand is not linked in the ring"}

DemoteHotChecks ==
    {"hot hand stops on a referenced page",
     "hot hand is not linked in the ring",
     "hot hand stops on a cold page"}

(* C18: whenever evictCold runs, the page at the cold hand is linked in    *)
(* the ring and is cold, resident and not referenced; whenever demoteHot   *)
(* runs, the page at the hot hand is linked in the ring and is hot and not *)
(* referenced; no call fails an assertion of evictCold or demoteHot.       *)
C18_HandsStopped ==
    c.failed \cap (EvictColdChecks \cup DemoteHotChecks) = {}

C18_Witness ==
    Ok(c) /\ {"evictCold", "demoteHot"} \subseteq c.entered
        /\ c.path = "promoteTest"

(* The assertions of promoteTest.                                          *)
PromoteTestChecks ==
    {"hit a non-resident cold page out of the stack",
     "hit a referenced non-resident cold page",
     "cache not full"}

(* C19: whenever promoteTest is entered, the ghost page is Stacked and not *)
(* Referenced and hotCount + coldCount = capacity; and while the cache is  *)
(* below capacity there is no ghost: no nonresident page in the ring or    *)
(* the index, and testCount = 0.                                           *)
C19_GhostHitAtCapacity ==
    /\ c.failed \cap PromoteTestChecks = {}
    /\ Ok(c) /\ CacheLen(c) < c.capacity =>
           /\ c.testCount = 0
           /\ \A p \in RingPages(c) : c.mem[p].Resident
           /\ \A key \in Key : ~IsGhost(c, key)

C19_Witness ==
    Ok(c) /\ c.path = "promoteTest" /\ last.op = "Set" /\ c.testCount > 0

(* The notes on the pointers the sweeps and the ring updates use.          *)
PointerUses ==
    {"sweepHot starts at an unlinked page",
     "sweepHot goes on at an unlinked page",
     "sweepCold starts at an unlinked page",
     "sweepCold goes on at an unlinked page",
     "sweepTest starts at an unlinked page",
     "sweepTest goes on at an unlinked page",
     "pruneTest removes an unlinked page",
     "addToClock links to an unlinked page",
     "moveToLRU links to an unlinked page"}

(* The hands, the LRU pointer and the index entries of x that are set.     *)
Pointers(x) ==
    ({x.lru, x.hot, x.cold, x.test} \cup {x.index[key] : key \in Key}) \ {NIL}

(* C20: whenever a sweep starts or goes on at a hand or cursor, pruneTest  *)
(* takes the test hand, or addToClock or moveToLRU uses the LRU pointer,   *)
(* the page is linked in the ring; and after every operation that returns  *)
(* the hands, the LRU pointer and every index entry are linked in the ring. *)
C20_PointersLinked ==
    /\ c.failed \cap PointerUses = {}
    /\ Ok(c) => \A p \in Pointers(c) : Linked(c, p)

-----------------------------------------------------------------------------
(* I8 and I7 at the hands of x: with a hot page in the cache the hot hand  *)
(* is on a hot page that is not referenced; with a resident cold page in   *)
(* the cache the cold hand is on a resident cold page that is not          *)
(* referenced.                                                             *)
HotStopped(x) ==
    x.hotCount > 0 =>
        x.hot # NIL /\ x.mem[x.hot].LIR /\ ~x.mem[x.hot].Referenced

ColdStopped(x) ==
    x.coldCount > 0 =>
        /\ x.cold # NIL
        /\ ~x.mem[x.cold].LIR
        /\ x.mem[x.cold].Resident
        /\ ~x.mem[x.cold].Referenced

(* The same without the Referenced bit.                                    *)
HandsOnTheirPages(x) ==
    /\ x.hotCount > 0 => x.hot # NIL /\ x.mem[x.hot].LIR
    /\ x.coldCount > 0 =>
           x.cold # NIL /\ ~x.mem[x.cold].LIR /\ x.mem[x.cold].Resident

(* C21 as stated: after every call that returns, the hot hand is on a hot  *)
(* page that is not referenced (if there is a hot page) and the cold hand  *)
(* on a resident cold page that is not referenced (if there is one).       *)
C21_HandsUnreferenced == Ok(c) => HotStopped(c) /\ ColdStopped(c)

(* C21, amended: after every call that returns, the hot hand is on a hot   *)
(* page and the cold hand on a resident cold page; the page at either hand *)
(* is not referenced after a call that went through handleMiss, while a    *)
(* Get hit or a Set on a resident key may leave it referenced.             *)
C21_HandsAfterMiss ==
    Ok(c) =>
        /\ HandsOnTheirPages(c)
        /\ c.path # "none" => HotStopped(c) /\ ColdStopped(c)

C21_Witness ==
    /\ Ok(c) /\ c.path = "promoteTest" /\ "demoteHot" \in c.entered
    /\ c.hotCount > 0 /\ c.coldCount > 0

(* I6 at the test hand of x.                                               *)
TestStopped(x) ==
    /\ x.test = NIL <=> x.testCount = 0
    /\ x.test # NIL =>
           /\ Linked(x, x.test)
           /\ x.mem[x.test].Stacked
           /\ ~x.mem[x.test].LIR
           /\ ~x.mem[x.test].Resident

(* What pruneTest asserts, and the model notes, when it takes the page at  *)
(* the test hand.                                                          *)
PruneTestChecks ==
    {"test hand does not stop at a test page",
     "pruneTest removes an unlinked page"}

(* C22: after every call that returns, the test hand is nil exactly when   *)
(* testCount = 0 and otherwise is on a page linked in the ring that is     *)
(* Stacked, not LIR and not Resident; and each time pruneTest removes the  *)
(* page at the test hand that page is linked and is such a page.           *)
C22_TestHand ==
    /\ Ok(c) => TestStopped(c)
    /\ c.failed \cap PruneTestChecks = {}

C22_Witness ==
    Ok(c) /\ "pruneTest" \in c.entered /\ c.test # NIL /\ c.testCount > 1

(* C23: decreaseColdTarget is never entered with demotions = 0 and         *)
(* increaseColdTarget never with testCount = 0: no call stops on an        *)
(* integer division by zero.                                               *)
C23_NoDivisionByZero == c.status # "divide by zero"

C23_Witness ==
    Ok(c) /\ {"increaseColdTarget", "decreaseColdTarget"} \subseteq c.entered

(* The notes on the steps that clear a Demoted flag.                       *)
HandClosesDemotion ==
    {"hot hand clears Demoted without decreasing coldTarget",
     "cold hand clears Demoted without decreasing coldTarget"}

EvictionClosesDemotion ==
    {"evictCold clears Demoted without decreasing coldTarget"}

(* C24 as stated: whenever the Demoted flag of a page is cleared, by the   *)
(* hot hand, by the cold hand or by evictCold, coldTarget goes down in     *)
(* that step unless it is 1 already.                                       *)
C24_DemotionClosedDecreases ==
    c.failed \cap (HandClosesDemotion \cup EvictionClosesDemotion) = {}

(* C24, amended: when the hot or the cold hand clears the Demoted flag of  *)
(* a referenced page, coldTarget goes down in that step unless it is 1     *)
(* already; when evictCold clears the Demoted flag of the page it evicts,  *)
(* demotions goes down by one and coldTarget stays as it is.               *)
C24_OnlyHandsDecrease ==
    c.failed \cap (HandClosesDemotion \cup {"evictCold changes coldTarget"}) = {}

C24_Witness ==
    /\ Ok(c) /\ "evictCold clears Demoted" \in c.entered
    /\ "decreaseColdTarget" \in c.entered
    /\ c.failed \cap EvictionClosesDemotion # {}

(* The call that returned was a Set handled as a ghost hit.                *)
GhostHitReturned == Ok(c) /\ last.op = "Set" /\ c.path = "promoteTest"

(* The page the index holds for the key of the call that returned.         *)
PageOfCall == c.mem[c.index[last.key]]

GhostHitAdapts(x, y) ==
    Ok(y) /\ y.path = "promoteTest" =>
        /\ y.coldTarget >= x.coldTarget
        /\ x.coldTarget < x.capacity \div 2 => y.coldTarget > x.coldTarget

(* C26: a Set handled as a ghost hit adapts coldTarget upward: when it     *)
(* returns coldTarget is not lower than before the call, and is greater    *)
(* unless it was capacity/2 already.                                       *)
C26_GhostHitRaisesColdTarget ==
    Ok(c) => \A key \in Key : GhostHitAdapts(Cache(c), Set(Cache(c), key, 1))

(* The same when the sweeps of the call are taken into account: coldTarget *)
(* stays within its range; it is lower than before only if a sweep of the  *)
(* call ran decreaseColdTarget, and without one it is greater than before  *)
(* unless it was capacity/2 already.                                       *)
GhostHitAdaptsUnlessSwept(x, y) ==
    Ok(y) /\ y.path = "promoteTest" =>
        /\ "increaseColdTarget" \in y.entered
        /\ 1 <= y.coldTarget /\ y.coldTarget <= y.capacity \div 2
        /\ "decreaseColdTarget" \notin y.entered =>
               /\ y.coldTarget >= x.coldTarget
               /\ x.coldTarget < x.capacity \div 2 => y.coldTarget > x.coldTarget

(* C26, amended: a Set handled as a ghost hit runs increaseColdTarget, but *)
(* a sweep of the same call that passes a referenced Demoted page runs     *)
(* decreaseColdTarget after it; coldTarget at return is not lower than     *)
(* before, and greater unless it was capacity/2, only when no sweep of the *)
(* call ran decreaseColdTarget.                                            *)
C26_GhostHitRaisesUnlessSwept ==
    Ok(c) =>
        \A key \in Key :
            GhostHitAdaptsUnlessSwept(Cache(c), Set(Cache(c), key, 1))

C26_Witness ==
    /\ GhostHitReturned
    /\ {"increaseColdTarget", "decreaseColdTarget"} \subseteq c.entered
    /\ c.coldTarget < c.capacity \div 2

(* The notes on what evictCold does with the page it evicts.               *)
EvictColdOutcome ==
    {"evictCold does not keep a stacked page as a ghost",
     "evictCold does not remove a page out of the stack",
     "evictCold leaves the LRU pointer off the page before"}

(* C27: when evictCold evicts the page at the cold hand, a Stacked page    *)
(* stays linked in the ring and in the index as a nonresident page with    *)
(* the zero value and testCount grows by 1; a page out of the stack is     *)
(* removed from the ring and the index in the same call, testCount is what *)
(* it was, and if it was the LRU page the LRU pointer is on the page       *)
(* before it.                                                              *)
C27_EvictColdOutcome == c.failed \cap EvictColdOutcome = {}

(* The number of pages of the ring of x that satisfy each description.     *)
HotPages(x) == Cardinality({p \in RingPages(x) : x.mem[p].LIR})

ColdPages(x) ==
    Cardinality({p \in RingPages(x) : x.mem[p].Resident /\ ~x.mem[p].LIR})

TestPages(x) == Cardinality({p \in RingPages(x) : ~x.mem[p].Resident})

DemotedPages(x) == Cardinality({p \in RingPages(x) : x.mem[p].Demoted})

(* C28: after every call that returns, hotCount is the number of LIR pages *)
(* of the ring, coldCount the number of Resident pages that are not LIR,   *)
(* testCount the number of pages that are not Resident, demotions the      *)
(* number of pages with Demoted set, and the ring holds hotCount +         *)
(* coldCount + testCount pages.                                            *)
C28_CountersAgree ==
    Ok(c) =>
        /\ c.hotCount = HotPages(c)
        /\ c.coldCount = ColdPages(c)
        /\ c.testCount = TestPages(c)
        /\ c.demotions = DemotedPages(c)
        /\ Cardinality(RingPages(c)) = c.hotCount + c.coldCount + c.testCount

C28_Witness ==
    /\ Ok(c) /\ c.hotCount > 1 /\ c.coldCount > 1 /\ c.testCount > 1
    /\ c.demotions > 0
    /\ {"evictCold", "demoteHot", "pruneTest"} \subseteq c.entered

(* C29: after every call that returns, hotCount <= hotTarget; hotCount is  *)
(* at least 1 once a key has been inserted; at capacity coldCount is at    *)
(* least 1; and evictCold never finds the cold hand nil or on a page that  *)
(* is not a resident cold page.                                            *)
C29_HotWithinTarget ==
    /\ Ok(c) =>
           /\ c.hotCount <= c.hotTarget
           /\ c.lru # NIL => c.hotCount >= 1
           /\ CacheLen(c) = c.capacity => c.coldCount >= 1
    /\ c.status # "nil dereference"
    /\ "cold hand does not stop at a non-referenced resident cold page"
           \notin c.failed

C29_Witness ==
    /\ Ok(c) /\ CacheLen(c) = c.capacity /\ c.hotCount = c.hotTarget
    /\ c.coldCount > 1
    /\ {"evictCold", "demoteHot"} \subseteq c.entered

=============================================================================
